---- MODULE Spec2Model ----
(***************************************************************************)
(* Star Shop bot: the conversation handlers of api/working_main.py, the    *)
(* routing of api/index.py and the two Ledger Store implementations        *)
(* (api/database.py over Supabase, database.py over SQLite).               *)
(***************************************************************************)
EXTENDS Integers, Sequences, FiniteSets, TLC

VARIABLES backend, now, users, referrals, usage_stats, conv, pc, local, cur, out, log,
          calls, okIncr, base

vars == <<backend, now, users, referrals, usage_stats, conv, pc, local, cur, out, log,
          calls, okIncr, base>>

(* ------------------------------ bounds -------------------------------- *)

\* the two callers whose sessions are explored
Users == {7, 42}

\* an earlier caller, already in the users table when the store is preloaded
PriorUser == 1000

\* the clock runs from 0 to MaxTime
MaxTime == 1

\* at most MaxIncr calls of increment_referral_count complete without a
\* storage fault in a behaviour of the store, at most MaxRefs in a behaviour
\* of the whole bot
MaxIncr == 4

MaxRefs == 1

\* seeds of the random generator are 0..MaxSeed
MaxSeed == 1

\* at most this many usage samples are written
MaxSamples == 3

\* referral count of user 7 found in a preloaded store
PreloadCount == 99

(* --------------------------- program constants ------------------------ *)

EXPECTING_NUMBER == 1

END == -1

ADMIN_USER_ID == 42

WithdrawMin == 100

Backends == {"supabase", "sqlite"}

\* outcome of one storage call: it succeeds, or it raises when the
\* connection is opened, or it raises when the statement is executed
Faults == {"ok", "connect", "execute"}

CallbackData == {"button1", "button2", "withdraw", "home"}

(* ------------------------------ helpers ------------------------------- *)

Digits == {"0", "1", "2", "3", "4", "5", "6", "7", "8", "9"}

DigitVal(c) ==
  CASE c = "0" -> 0 [] c = "1" -> 1 [] c = "2" -> 2 [] c = "3" -> 3 [] c = "4" -> 4
    [] c = "5" -> 5 [] c = "6" -> 6 [] c = "7" -> 7 [] c = "8" -> 8 [] c = "9" -> 9

RECURSIVE DigitsValue(_)
DigitsValue(s) ==
  IF s = <<>> THEN 0 ELSE 10 * DigitsValue(SubSeq(s, 1, Len(s) - 1)) + DigitVal(s[Len(s)])

AllDigits(s) == s # <<>> /\ \A i \in 1..Len(s) : s[i] \in Digits

\* int(text): an optional sign followed by decimal digits, ValueError otherwise
ParseInt(s) ==
  LET signed == s # <<>> /\ s[1] \in {"+", "-"}
      body == IF signed THEN Tail(s) ELSE s
  IN IF AllDigits(body)
       THEN [ok |-> TRUE,
             value |-> IF signed /\ s[1] = "-" THEN 0 - DigitsValue(body) ELSE DigitsValue(body)]
       ELSE [ok |-> FALSE, value |-> 0]

\* the arguments a start command is sent with
StartArgs == {<<>>, <<<<"7">>>>, <<<<"9">>>>, <<<<"4", "x">>>>}

\* the referrers these arguments name
ReferrerIds == {7, 9}

(* --------------------- arbitrary-precision naturals -------------------- *)

\* a natural number is the sequence of its base-4096 limbs, least significant
\* first, without leading zero limbs; <<>> is zero
LimbBase == 4096

LimbBits == 12

RECURSIVE BigNorm(_)
BigNorm(a) ==
  IF a # <<>> /\ a[Len(a)] = 0 THEN BigNorm(SubSeq(a, 1, Len(a) - 1)) ELSE a

RECURSIVE BigFromInt(_)
BigFromInt(n) ==
  IF n = 0 THEN <<>> ELSE <<n % LimbBase>> \o BigFromInt(n \div LimbBase)

RECURSIVE BigMulSmallC(_, _, _)
BigMulSmallC(a, k, carry) ==
  IF a = <<>> THEN BigFromInt(carry)
  ELSE LET t == a[1] * k + carry
       IN <<t % LimbBase>> \o BigMulSmallC(Tail(a), k, t \div LimbBase)

\* a * k for 0 <= k < 2^18
BigMulSmall(a, k) == BigNorm(BigMulSmallC(a, k, 0))

RECURSIVE BigAddC(_, _, _)
BigAddC(a, b, carry) ==
  IF a = <<>> /\ b = <<>> THEN BigFromInt(carry)
  ELSE LET x == IF a = <<>> THEN 0 ELSE a[1]
           y == IF b = <<>> THEN 0 ELSE b[1]
           t == x + y + carry
       IN <<t % LimbBase>> \o BigAddC(IF a = <<>> THEN a ELSE Tail(a),
                                      IF b = <<>> THEN b ELSE Tail(b), t \div LimbBase)

BigAdd(a, b) == BigNorm(BigAddC(a, b, 0))

RECURSIVE BigSubC(_, _, _)
BigSubC(a, b, borrow) ==
  IF a = <<>> THEN <<>>
  ELSE LET y == IF b = <<>> THEN 0 ELSE b[1]
           t == a[1] - y - borrow
       IN <<t % LimbBase>> \o BigSubC(Tail(a), IF b = <<>> THEN b ELSE Tail(b),
                                      IF t < 0 THEN 1 ELSE 0)

\* a - b for a >= b
BigSub(a, b) == BigNorm(BigSubC(a, b, 0))

\* a * 4096^n
BigShiftLimbs(a, n) == IF a = <<>> THEN a ELSE [i \in 1..n |-> 0] \o a

RECURSIVE BigMul(_, _)
BigMul(a, b) ==
  IF b = <<>> THEN <<>>
  ELSE BigAdd(BigMulSmall(a, b[1]), BigShiftLimbs(BigMul(a, Tail(b)), 1))

RECURSIVE BigCmpFrom(_, _, _)
BigCmpFrom(a, b, i) ==
  IF i = 0 THEN 0
  ELSE IF a[i] < b[i] THEN -1 ELSE IF a[i] > b[i] THEN 1 ELSE BigCmpFrom(a, b, i - 1)

\* -1, 0 or 1 as a < b, a = b or a > b
BigCmp(a, b) ==
  IF Len(a) < Len(b) THEN -1 ELSE IF Len(a) > Len(b) THEN 1 ELSE BigCmpFrom(a, b, Len(a))

RECURSIVE BigDivSmallR(_, _, _)
BigDivSmallR(a, d, i) ==
  IF i > Len(a) THEN [q |-> <<>>, r |-> 0]
  ELSE LET hi == BigDivSmallR(a, d, i + 1)
           t == hi.r * LimbBase + a[i]
       IN [q |-> <<t \div d>> \o hi.q, r |-> t % d]

\* quotient and remainder of a by d, 0 < d < 2^18
BigDivSmall(a, d) ==
  LET res == BigDivSmallR(a, d, 1) IN [q |-> BigNorm(res.q), r |-> res.r]

RECURSIVE Pow(_, _)
Pow(b, n) == IF n = 0 THEN 1 ELSE b * Pow(b, n - 1)

RECURSIVE IntBitLen(_)
IntBitLen(n) == IF n = 0 THEN 0 ELSE 1 + IntBitLen(n \div 2)

BigBitLen(a) ==
  IF a = <<>> THEN 0 ELSE LimbBits * (Len(a) - 1) + IntBitLen(a[Len(a)])

\* a * 2^s
BigShl(a, s) == BigShiftLimbs(BigMulSmall(a, Pow(2, s % LimbBits)), s \div LimbBits)

\* a \div 2^s
BigShr(a, s) ==
  LET n == s \div LimbBits
      rest == IF n >= Len(a) THEN <<>> ELSE SubSeq(a, n + 1, Len(a))
  IN BigDivSmall(rest, Pow(2, s % LimbBits)).q

BigIsOdd(a) == a # <<>> /\ a[1] % 2 = 1

\* a * 2^(-s) rounded to the nearest integer, ties to even; sticky says that
\* the exact value lies strictly above a * 2^(-s)
BigRoundShr(a, s, sticky) ==
  IF s = 0 THEN a
  ELSE LET q == BigShr(a, s)
           r == BigSub(a, BigShl(q, s))
           half == BigShl(<<1>>, s - 1)
           c == BigCmp(r, half)
       IN IF c > 0 \/ (c = 0 /\ (sticky \/ BigIsOdd(q))) THEN BigAdd(q, <<1>>) ELSE q

RECURSIVE BigDigits(_)
BigDigits(a) ==
  IF a = <<>> THEN <<>>
  ELSE LET d == BigDivSmall(a, 10) IN BigDigits(d.q) \o <<d.r>>

(* --------------------------- binary64 floats --------------------------- *)

\* a finite float is neg, m, e with value m * 2^e and m = 0 or 2^52 <= m < 2^53;
\* the inputs explored stay far from the overflow and subnormal ranges
MantBits == 53

FloatInf == [cls |-> "inf", neg |-> FALSE, m |-> <<>>, e |-> 0]

FloatNan == [cls |-> "nan", neg |-> FALSE, m |-> <<>>, e |-> 0]

\* the float nearest to n * 2^e (ties to even)
FloatRound(neg, n, e, sticky) ==
  IF n = <<>> THEN [cls |-> "finite", neg |-> neg, m |-> <<>>, e |-> 0]
  ELSE LET bl == BigBitLen(n)
       IN IF bl <= MantBits
            THEN [cls |-> "finite", neg |-> neg, m |-> BigShl(n, MantBits - bl),
                  e |-> e - (MantBits - bl)]
            ELSE LET q == BigRoundShr(n, bl - MantBits, sticky)
                 IN IF BigBitLen(q) > MantBits
                      THEN [cls |-> "finite", neg |-> neg, m |-> BigShr(q, 1),
                            e |-> e + (bl - MantBits) + 1]
                      ELSE [cls |-> "finite", neg |-> neg, m |-> q, e |-> e + (bl - MantBits)]

\* the float nearest to num / 10^scale (scale may be negative)
FloatOfDecimal(neg, num, scale) ==
  IF scale <= 0
    THEN LET RECURSIVE Times10(_, _)
             Times10(a, k) == IF k = 0 THEN a ELSE Times10(BigMulSmall(a, 10), k - 1)
         IN FloatRound(neg, Times10(num, 0 - scale), 0, FALSE)
    ELSE LET RECURSIVE Over10(_, _)
             Over10(st, k) ==
               IF k = 0 THEN st
               ELSE LET d == BigDivSmall(st.q, 10)
                    IN Over10([q |-> d.q, sticky |-> st.sticky \/ d.r # 0], k - 1)
             shift == 64 + 4 * scale
             res == Over10([q |-> BigShl(num, shift), sticky |-> FALSE], scale)
         IN FloatRound(neg, res.q, 0 - shift, res.sticky)

\* x * y
FloatMul(x, y) ==
  IF x.cls = "nan" \/ y.cls = "nan" THEN FloatNan
  ELSE IF x.cls = "inf" \/ y.cls = "inf"
    THEN IF (x.cls = "finite" /\ x.m = <<>>) \/ (y.cls = "finite" /\ y.m = <<>>)
           THEN FloatNan
           ELSE [FloatInf EXCEPT !.neg = (x.neg # y.neg)]
    ELSE FloatRound(x.neg # y.neg, BigMul(x.m, y.m), x.e + y.e, FALSE)

\* x >= n for a natural number n; every comparison with nan is false
FloatGeqNat(x, n) ==
  CASE x.cls = "nan" -> FALSE
    [] x.cls = "inf" -> ~x.neg
    [] OTHER ->
         IF x.neg THEN n = 0 /\ x.m = <<>>
         ELSE IF x.e >= 0 THEN BigCmp(BigShl(x.m, x.e), BigFromInt(n)) >= 0
         ELSE BigCmp(x.m, BigShl(BigFromInt(n), 0 - x.e)) >= 0

\* |x| * 100 rounded to an integer, ties to even: the hundredths that the
\* format "{:.2f}" prints
FloatHundredths(x) ==
  LET n == BigMulSmall(x.m, 100)
  IN IF x.e >= 0 THEN BigShl(n, x.e) ELSE BigRoundShr(n, 0 - x.e, FALSE)

DigitChar(d) == <<"0", "1", "2", "3", "4", "5", "6", "7", "8", "9">>[d + 1]

\* f"{x:.2f}"
FormatFixed2(x) ==
  CASE x.cls = "nan" -> <<"n", "a", "n">>
    [] x.cls = "inf" -> (IF x.neg THEN <<"-">> ELSE <<>>) \o <<"i", "n", "f">>
    [] OTHER ->
         LET c == FloatHundredths(x)
             whole == BigDigits(BigDivSmall(c, 100).q)
             frac == BigDivSmall(c, 100).r
             wholeDigits == IF whole = <<>> THEN <<0>> ELSE whole
         IN (IF x.neg THEN <<"-">> ELSE <<>>)
            \o [i \in 1..Len(wholeDigits) |-> DigitChar(wholeDigits[i])]
            \o <<".", DigitChar(frac \div 10), DigitChar(frac % 10)>>

(* ------------------------------ float(text) ---------------------------- *)

Lower(c) ==
  CASE c = "I" -> "i" [] c = "N" -> "n" [] c = "F" -> "f" [] c = "T" -> "t"
    [] c = "Y" -> "y" [] c = "A" -> "a" [] c = "E" -> "e" [] OTHER -> c

LowerAll(s) == [i \in 1..Len(s) |-> Lower(s[i])]

RECURSIVE Strip(_)
Strip(s) ==
  IF s # <<>> /\ s[1] = " " THEN Strip(Tail(s))
  ELSE IF s # <<>> /\ s[Len(s)] = " " THEN Strip(SubSeq(s, 1, Len(s) - 1))
  ELSE s

\* position of the first element of s that lies in cs, 0 when there is none
FirstOf(s, cs) ==
  LET hits == {i \in 1..Len(s) : s[i] \in cs}
  IN IF hits = {} THEN 0 ELSE CHOOSE i \in hits : \A j \in hits : i <= j

DigitsOrEmpty(s) == \A i \in 1..Len(s) : s[i] \in Digits

\* float(text) on the decimal grammar: blanks stripped, an optional sign, then
\* inf, infinity or nan in any case, or digits with an optional fraction and
\* an optional exponent; ValueError otherwise
ParseFloat(text) ==
  LET s == Strip(text)
      signed == s # <<>> /\ s[1] \in {"+", "-"}
      neg == signed /\ s[1] = "-"
      body == IF signed THEN Tail(s) ELSE s
      word == LowerAll(body)
      ePos == FirstOf(word, {"e"})
      mant == IF ePos = 0 THEN body ELSE SubSeq(body, 1, ePos - 1)
      expo == IF ePos = 0 THEN <<"0">> ELSE SubSeq(body, ePos + 1, Len(body))
      dot == FirstOf(mant, {"."})
      intp == IF dot = 0 THEN mant ELSE SubSeq(mant, 1, dot - 1)
      fracp == IF dot = 0 THEN <<>> ELSE SubSeq(mant, dot + 1, Len(mant))
      ex == ParseInt(expo)
  IN IF word \in {<<"i", "n", "f">>, <<"i", "n", "f", "i", "n", "i", "t", "y">>}
       THEN [ok |-> TRUE, value |-> [FloatInf EXCEPT !.neg = neg]]
     ELSE IF word = <<"n", "a", "n">>
       THEN [ok |-> TRUE, value |-> FloatNan]
     ELSE IF /\ DigitsOrEmpty(intp) /\ DigitsOrEmpty(fracp) /\ intp \o fracp # <<>>
             /\ ex.ok
       THEN [ok |-> TRUE,
             value |-> FloatOfDecimal(neg, BigFromInt(DigitsValue(intp \o fracp)),
                                      Len(fracp) - ex.value)]
     ELSE [ok |-> FALSE, value |-> FloatNan]

Chars(str) ==
  CASE str = "abc" -> <<"a", "b", "c">>
    [] str = "49" -> <<"4", "9">>
    [] str = "50" -> <<"5", "0">>
    [] str = "99.99" -> <<"9", "9", ".", "9", "9">>
    [] str = "100" -> <<"1", "0", "0">>
    [] str = "3e2" -> <<"3", "e", "2">>
    [] str = "inf" -> <<"i", "n", "f">>
    [] str = "nan" -> <<"n", "a", "n">>

\* the texts a user sends while an amount is expected
AmountTexts == {"abc", "49", "50", "99.99", "100", "3e2", "inf", "nan"}

(* ------------------------- generate_random_string ---------------------- *)

\* string.ascii_letters + string.digits, as character codes
Characters ==
  [i \in 1..26 |-> 96 + i] \o [i \in 1..26 |-> 64 + i] \o [i \in 1..10 |-> 47 + i]

\* the i-th draw below n of the generator seeded with seed
RandBelow(seed, i, n) == (31 * seed + 17 * i) % n

generate_random_string(length, seed) ==
  [i \in 1..length |-> Characters[RandBelow(seed, i, Len(Characters)) + 1]]

DefaultLength == 15

WithdrawRefLength == 8

Seeds == 0..MaxSeed

(* ---------------------------- Ledger Store ---------------------------- *)

\* rows of a table selected by the value of one column
RowsWhere(tbl, col, v) == {i \in 1..Len(tbl) : tbl[i][col] = v}

SelectWhere(tbl, col, v) ==
  LET F[i \in 0..Len(tbl)] ==
        IF i = 0 THEN <<>>
        ELSE IF tbl[i][col] = v THEN Append(F[i - 1], tbl[i]) ELSE F[i - 1]
  IN F[Len(tbl)]

\* an INSERT that does not enforce the primary key
InsertRowNoKey(tbl, col, row) == [raised |-> FALSE, tbl |-> Append(tbl, row)]

\* INSERT into a table whose primary key is col: a duplicate key is an error
InsertRow(tbl, col, row) ==
  IF RowsWhere(tbl, col, row[col]) # {}
    THEN [raised |-> TRUE, tbl |-> tbl]
    ELSE [raised |-> FALSE, tbl |-> Append(tbl, row)]

\* the stored count of a referrer, 0 when there is no record
CountOf(tbl, r) ==
  LET rows == SelectWhere(tbl, "referrer_id", r)
  IN IF rows = <<>> THEN 0 ELSE rows[1].count

\* api/database.py add_new_user: insert, every exception swallowed
ApiAddNewUser(tbl, user_id, t, fault) ==
  LET ins == InsertRow(tbl, "user_id", [user_id |-> user_id, first_seen |-> t])
  IN [raised |-> FALSE,
      error |-> fault # "ok" \/ ins.raised,
      tbl |-> IF fault # "ok" \/ ins.raised THEN tbl ELSE ins.tbl]

\* database.py add_new_user: INSERT OR IGNORE; the finally block closes a
\* connection that was never bound when connect itself raised
SqlAddNewUser(tbl, user_id, t, fault) ==
  LET ins == InsertRow(tbl, "user_id", [user_id |-> user_id, first_seen |-> t])
  IN [raised |-> fault = "connect",
      error |-> fault # "ok",
      tbl |-> IF fault # "ok" \/ ins.raised THEN tbl ELSE ins.tbl]

add_new_user(be, tbl, user_id, t, fault) ==
  IF be = "supabase" THEN ApiAddNewUser(tbl, user_id, t, fault)
  ELSE SqlAddNewUser(tbl, user_id, t, fault)

\* api/database.py increment_referral_count, first storage call: the select
ApiIncrSelect(tbl, referrer_id, fault) ==
  [raised |-> fault # "ok",
   data |-> IF fault # "ok" THEN <<>> ELSE SelectWhere(tbl, "referrer_id", referrer_id)]

\* an increment_referral_count that updates a record and never creates one
ApiIncrWriteNoInsert(tbl, referrer_id, data, fault) ==
  IF fault # "ok" THEN tbl
  ELSE IF data # <<>>
    THEN [i \in 1..Len(tbl) |->
            IF tbl[i].referrer_id = referrer_id
              THEN [tbl[i] EXCEPT !.count = data[1].count + 1]
              ELSE tbl[i]]
    ELSE tbl

\* api/database.py increment_referral_count, second storage call: the update
\* of the count read before, or the insert of a first record
ApiIncrWrite(tbl, referrer_id, data, fault) ==
  IF fault # "ok" THEN tbl
  ELSE IF data # <<>>
    THEN [i \in 1..Len(tbl) |->
            IF tbl[i].referrer_id = referrer_id
              THEN [tbl[i] EXCEPT !.count = data[1].count + 1]
              ELSE tbl[i]]
    ELSE InsertRow(tbl, "referrer_id", [referrer_id |-> referrer_id, count |-> 1]).tbl

\* database.py increment_referral_count: one INSERT .. ON CONFLICT DO UPDATE
SqlIncrUpsert(tbl, referrer_id, fault) ==
  [raised |-> fault = "connect",
   tbl |-> IF fault # "ok" THEN tbl
           ELSE IF RowsWhere(tbl, "referrer_id", referrer_id) # {}
             THEN [i \in 1..Len(tbl) |->
                     IF tbl[i].referrer_id = referrer_id
                       THEN [tbl[i] EXCEPT !.count = tbl[i].count + 1]
                       ELSE tbl[i]]
             ELSE Append(tbl, [referrer_id |-> referrer_id, count |-> 1])]

\* api/database.py get_referral_count
ApiGetReferralCount(tbl, user_id, fault) ==
  LET data == SelectWhere(tbl, "referrer_id", user_id)
  IN [raised |-> FALSE,
      value |-> IF fault # "ok" THEN 0 ELSE IF data # <<>> THEN data[1].count ELSE 0]

\* database.py get_referral_count
SqlGetReferralCount(tbl, user_id, fault) ==
  LET data == SelectWhere(tbl, "referrer_id", user_id)
  IN [raised |-> fault = "connect",
      value |-> IF fault # "ok" THEN 0 ELSE IF data # <<>> THEN data[1].count ELSE 0]

get_referral_count(be, tbl, user_id, fault) ==
  IF be = "supabase" THEN ApiGetReferralCount(tbl, user_id, fault)
  ELSE SqlGetReferralCount(tbl, user_id, fault)

\* api/database.py get_unique_users_count
ApiGetUniqueUsersCount(tbl, fault) ==
  [raised |-> FALSE, value |-> IF fault # "ok" THEN 0 ELSE Len(tbl)]

\* database.py get_unique_users_count: COUNT(DISTINCT user_id)
SqlGetUniqueUsersCount(tbl, fault) ==
  [raised |-> fault = "connect",
   value |-> IF fault # "ok" THEN 0
             ELSE Cardinality({tbl[i].user_id : i \in 1..Len(tbl)})]

get_unique_users_count(be, tbl, fault) ==
  IF be = "supabase" THEN ApiGetUniqueUsersCount(tbl, fault)
  ELSE SqlGetUniqueUsersCount(tbl, fault)

(* --------------------------- Stats Aggregator -------------------------- *)

\* the clock counts hours
Hour == 1

\* the columns of usage_stats
UsageColumns == {"timestamp", "connections"}

\* a nullable value: Python's None and SQL's NULL, or a value
None == <<>>

Some(x) == <<x>>

ZeroStats ==
  [current_connections |-> 0, peak_last_hour |-> Some(0),
   avg_last_hour |-> Some([sum |-> 0, n |-> 1]), all_time_max |-> Some(0)]

SeqMax(vals) == CHOOSE m \in {vals[i] : i \in 1..Len(vals)} : \A i \in 1..Len(vals) : vals[i] <= m

RECURSIVE SeqSum(_)
SeqSum(vals) == IF vals = <<>> THEN 0 ELSE vals[1] + SeqSum(Tail(vals))

Connections(rows) == [i \in 1..Len(rows) |-> rows[i].connections]

\* rows whose timestamp is after lo, or at lo when inclusive
SelectTime(tbl, lo, inclusive) ==
  LET keep(ts) == ts > lo \/ (inclusive /\ ts = lo)
      F[i \in 0..Len(tbl)] ==
        IF i = 0 THEN <<>>
        ELSE IF keep(tbl[i].timestamp) THEN Append(F[i - 1], tbl[i]) ELSE F[i - 1]
  IN F[Len(tbl)]

\* what select('count') on usage_stats hands back. The table is made in the
\* Supabase web interface and the code writes only timestamp and connections
\* to it: the request is an error when count names nothing, one row holding
\* the row count when the service reads it as the aggregate, and one row per
\* sample when the table has a column of that name
CountSelects == {"error", "aggregate", "column"}

\* the rows of the first select of api/database.py get_usage_stats
SelectCount(tbl, sel) ==
  IF sel = "aggregate" THEN <<[count |-> Len(tbl)]>>
  ELSE [i \in 1..Len(tbl) |-> [count |-> 0]]

\* api/database.py get_usage_stats: three selects, every exception swallowed
ApiGetUsageStats(tbl, t, fault, sel) ==
  LET hour_ago == t - Hour
      current == SelectCount(tbl, sel)
      stats == SelectTime(tbl, hour_ago, TRUE)
  IN IF fault # "ok" \/ sel = "error"
       THEN [raised |-> FALSE, value |-> ZeroStats]
       ELSE [raised |-> FALSE,
             value |->
               [current_connections |-> Len(current),
                peak_last_hour |-> IF stats # <<>> THEN Some(SeqMax(Connections(stats)))
                                   ELSE Some(0),
                avg_last_hour |-> IF stats # <<>>
                                    THEN Some([sum |-> SeqSum(Connections(stats)),
                                               n |-> Len(stats)])
                                    ELSE Some([sum |-> 0, n |-> 1]),
                all_time_max |-> IF tbl # <<>> THEN Some(SeqMax(Connections(tbl)))
                                 ELSE Some(0)]]

\* database.py get_usage_stats: one SELECT of COUNT, MAX, AVG over the last
\* hour and MAX over the table; MAX and AVG of no rows are NULL
SqlGetUsageStats(tbl, t, fault) ==
  LET hour_ago == t - Hour
      rows == SelectTime(tbl, hour_ago, FALSE)
  IN IF fault # "ok"
       THEN [raised |-> fault = "connect", value |-> ZeroStats]
       ELSE [raised |-> FALSE,
             value |->
               [current_connections |-> Len(rows),
                peak_last_hour |-> IF rows # <<>> THEN Some(SeqMax(Connections(rows)))
                                   ELSE None,
                avg_last_hour |-> IF rows # <<>>
                                    THEN Some([sum |-> SeqSum(Connections(rows)),
                                               n |-> Len(rows)])
                                    ELSE None,
                all_time_max |-> IF tbl # <<>> THEN Some(SeqMax(Connections(tbl)))
                                 ELSE None]]

get_usage_stats(be, tbl, t, fault, sel) ==
  IF be = "supabase" THEN ApiGetUsageStats(tbl, t, fault, sel)
  ELSE SqlGetUsageStats(tbl, t, fault)

\* timedelta(hours=24) on the clock that counts hours
Day == 24 * Hour

\* the sample that update_usage_stats writes
Sample(t) == [timestamp |-> t, connections |-> 1]

\* api/database.py update_usage_stats: insert, every exception swallowed
ApiUpdateUsageStats(tbl, t, fault) ==
  [raised |-> FALSE, tbl |-> IF fault # "ok" THEN tbl ELSE Append(tbl, Sample(t))]

\* database.py update_usage_stats; the finally block closes a connection
\* that was never bound when connect itself raised
SqlUpdateUsageStats(tbl, t, fault) ==
  [raised |-> fault = "connect", tbl |-> IF fault # "ok" THEN tbl ELSE Append(tbl, Sample(t))]

update_usage_stats(be, tbl, t, fault) ==
  IF be = "supabase" THEN ApiUpdateUsageStats(tbl, t, fault)
  ELSE SqlUpdateUsageStats(tbl, t, fault)

\* a DELETE that also takes the rows whose timestamp is the cutoff
DeleteUpTo(tbl, cutoff) == SelectTime(tbl, cutoff, FALSE)

\* DELETE .. WHERE timestamp < cutoff: the rows that stay
DeleteBefore(tbl, cutoff) == SelectTime(tbl, cutoff, TRUE)

\* api/database.py cleanup_old_stats: delete().lt('timestamp', cleanup_time)
ApiCleanupOldStats(tbl, t, fault) ==
  LET cleanup_time == t - Day
  IN [raised |-> FALSE, tbl |-> IF fault # "ok" THEN tbl ELSE DeleteBefore(tbl, cleanup_time)]

\* database.py cleanup_old_stats
SqlCleanupOldStats(tbl, t, fault) ==
  LET cleanup_time == t - Day
  IN [raised |-> fault = "connect",
      tbl |-> IF fault # "ok" THEN tbl ELSE DeleteBefore(tbl, cleanup_time)]

cleanup_old_stats(be, tbl, t, fault) ==
  IF be = "supabase" THEN ApiCleanupOldStats(tbl, t, fault)
  ELSE SqlCleanupOldStats(tbl, t, fault)

(* ------------------------------ messages ------------------------------ *)

MainMenu == [kind |-> "main_menu", buttons |-> <<"button1", "button2">>]

\* the main menu written over the message whose Home button was pressed
HomeMenu == [kind |-> "main_menu_edit", buttons |-> <<"button1", "button2">>]

AmountPrompt == [kind |-> "amount_prompt"]

Affiliate(user_id, ref_count) ==
  [kind |-> "affiliate", user_id |-> user_id, ref_count |-> ref_count,
   buttons |-> <<"withdraw", "home">>]

WithdrawAvailable(reference) ==
  [kind |-> "withdraw_available", reference |-> reference, buttons |-> <<"home">>]

InsufficientReferrals(remaining, ref_count) ==
  [kind |-> "insufficient_referrals", remaining |-> remaining, ref_count |-> ref_count,
   buttons |-> <<"home">>]

Invoice(number, price, order_id) ==
  [kind |-> "invoice", amount |-> number, price |-> price, order_id |-> order_id]

Caution == [kind |-> "caution", buttons |-> <<"home">>]

TooLow == [kind |-> "too_low"]

NotANumber == [kind |-> "not_a_number"]

StatsReport(connections, unique_users, peak, avg, all_time) ==
  [kind |-> "stats_report", connections |-> connections, unique_users |-> unique_users,
   peak |-> peak, avg |-> avg, all_time |-> all_time, buttons |-> <<"home">>]

DbError == [kind |-> "db_error"]

NoLocal == [args |-> <<>>, referrer_id |-> 0, data |-> <<>>]

(* ------------------------------- routing ------------------------------ *)

\* a ConversationHandler with the text handler among its entry points
conv_handler_text_entry(state, update) ==
  CASE update = "text" -> "process_number"
    [] update = "callback" -> "button_callback"
    [] update = "start" -> "start"
    [] OTHER -> "none"

\* a ConversationHandler without fallbacks: start is an entry point only
conv_handler_no_fallback(state, update) ==
  IF state = EXPECTING_NUMBER
    THEN CASE update = "text" -> "process_number"
           [] update = "callback" -> "button_callback"
           [] OTHER -> "none"
    ELSE CASE update = "start" -> "start"
           [] update = "callback" -> "button_callback"
           [] OTHER -> "none"

\* ConversationHandler: which callback handles an update in a given state
conv_handler(state, update) ==
  IF state = EXPECTING_NUMBER
    THEN CASE update = "text" -> "process_number"
           [] update = "callback" -> "button_callback"
           [] update = "start" -> "start"
           [] OTHER -> "none"
    ELSE CASE update = "start" -> "start"
           [] update = "callback" -> "button_callback"
           [] OTHER -> "none"

(* ------------------------------- start -------------------------------- *)

\* a referral check without the comparison with the caller's id
ReferralOfAnyone(user_id, args) ==
  IF args # <<>>
    THEN LET p == ParseInt(args[1])
         IN IF p.ok
              THEN [record |-> TRUE, referrer_id |-> p.value]
              ELSE [record |-> FALSE, referrer_id |-> 0]
    ELSE [record |-> FALSE, referrer_id |-> 0]

\* a referral check that credits referrer 0 when the argument is no integer
ReferralOfUnparsed(user_id, args) ==
  IF args # <<>>
    THEN LET p == ParseInt(args[1])
         IN IF p.ok
              THEN IF p.value # user_id
                     THEN [record |-> TRUE, referrer_id |-> p.value]
                     ELSE [record |-> FALSE, referrer_id |-> 0]
              ELSE [record |-> TRUE, referrer_id |-> 0]
    ELSE [record |-> FALSE, referrer_id |-> 0]

\* start, lines 146-154: does the command carry a referral to record
ReferralOf(user_id, args) ==
  IF args # <<>>
    THEN LET p == ParseInt(args[1])
         IN IF p.ok /\ p.value # user_id
              THEN [record |-> TRUE, referrer_id |-> p.value]
              ELSE [record |-> FALSE, referrer_id |-> 0]
    ELSE [record |-> FALSE, referrer_id |-> 0]

\* a start whose return value ends the conversation of every user, as one
\* conversation key for all callers would
StartReplyShared(u) ==
  /\ out' = <<MainMenu>>
  /\ conv' = [v \in Users |-> END]
  /\ pc' = [pc EXCEPT ![u] = "idle"]

\* the reply of start and its return value ConversationHandler.END
StartReply(u) ==
  /\ out' = <<MainMenu>>
  /\ conv' = [conv EXCEPT ![u] = END]
  /\ pc' = [pc EXCEPT ![u] = "idle"]

\* an exception leaves the handler: nothing is sent, the state is kept
Aborted(u) ==
  /\ out' = <<>>
  /\ log' = <<"handler_exception">>
  /\ pc' = [pc EXCEPT ![u] = "idle"]
  /\ UNCHANGED conv

\* the calls of increment_referral_count that have not returned
InFlight == Cardinality({v \in Users : pc[v] # "idle"})

RECURSIVE SumOver(_, _)
SumOver(f, S) ==
  IF S = {} THEN 0 ELSE LET x == CHOOSE x \in S : TRUE IN f[x] + SumOver(f, S \ {x})

\* the calls of increment_referral_count begun and not failed by a storage fault
Started == SumOver(okIncr, ReferrerIds) + InFlight

\* start up to its first suspension: add_new_user, then the referral check
Start(u, args, fault) ==
  /\ pc[u] = "idle"
  /\ conv_handler(conv[u], "start") = "start"
  /\ LET added == add_new_user(backend, users, u, now, fault)
         ref == ReferralOf(u, args)
     IN /\ users' = added.tbl
        /\ cur' = [user |-> u, from |-> conv[u], op |-> "start", input |-> args]
        /\ calls' = <<"add_new_user">>
        /\ IF added.raised
             THEN /\ Aborted(u)
                  /\ UNCHANGED local
             ELSE IF ref.record
               THEN /\ pc' = [pc EXCEPT ![u] = IF backend = "supabase" THEN "select" ELSE "upsert"]
                    /\ local' = [local EXCEPT ![u] = [args |-> args, referrer_id |-> ref.referrer_id,
                                                     data |-> <<>>]]
                    /\ out' = <<>>
                    /\ log' = IF added.error THEN <<"add_user_error">> ELSE <<>>
                    /\ UNCHANGED conv
               ELSE /\ StartReply(u)
                    /\ log' = IF added.error THEN <<"add_user_error">> ELSE <<>>
                    /\ UNCHANGED local
  /\ UNCHANGED <<backend, now, referrals, usage_stats, okIncr, base>>

\* increment_referral_count over Supabase: the select
IncrSelect(u, fault) ==
  /\ pc[u] = "select"
  /\ LET sel == ApiIncrSelect(referrals, local[u].referrer_id, fault)
     IN /\ cur' = [user |-> u, from |-> conv[u], op |-> "start", input |-> local[u].args]
        /\ calls' = <<"increment_referral_count">>
        /\ IF sel.raised
             THEN /\ StartReply(u)
                  /\ log' = <<"increment_error">>
                  /\ local' = [local EXCEPT ![u] = NoLocal]
             ELSE /\ pc' = [pc EXCEPT ![u] = "write"]
                  /\ local' = [local EXCEPT ![u].data = sel.data]
                  /\ out' = <<>>
                  /\ log' = <<>>
                  /\ UNCHANGED conv
  /\ UNCHANGED <<backend, now, users, referrals, usage_stats, okIncr, base>>

\* increment_referral_count over Supabase: the update or insert, then the reply
IncrWrite(u, fault) ==
  /\ pc[u] = "write"
  /\ referrals' = ApiIncrWrite(referrals, local[u].referrer_id, local[u].data, fault)
  /\ okIncr' = IF fault = "ok"
                 THEN [okIncr EXCEPT ![local[u].referrer_id] = @ + 1]
                 ELSE okIncr
  /\ cur' = [user |-> u, from |-> conv[u], op |-> "start", input |-> local[u].args]
  /\ calls' = <<"increment_referral_count">>
  /\ log' = IF fault = "ok" THEN <<>> ELSE <<"increment_error">>
  /\ local' = [local EXCEPT ![u] = NoLocal]
  /\ StartReply(u)
  /\ UNCHANGED <<backend, now, users, usage_stats, base>>

\* increment_referral_count over SQLite: one statement, then the reply
IncrUpsert(u, fault) ==
  /\ pc[u] = "upsert"
  /\ LET up == SqlIncrUpsert(referrals, local[u].referrer_id, fault)
     IN /\ referrals' = up.tbl
        /\ okIncr' = IF fault = "ok"
                       THEN [okIncr EXCEPT ![local[u].referrer_id] = @ + 1]
                       ELSE okIncr
        /\ cur' = [user |-> u, from |-> conv[u], op |-> "start", input |-> local[u].args]
        /\ calls' = <<"increment_referral_count">>
        /\ local' = [local EXCEPT ![u] = NoLocal]
        /\ IF up.raised
             THEN Aborted(u)
             ELSE /\ StartReply(u)
                  /\ log' = IF fault = "ok" THEN <<>> ELSE <<"increment_error">>
  /\ UNCHANGED <<backend, now, users, usage_stats, base>>

(* --------------------------- button_callback --------------------------- *)

\* a button_callback whose withdraw needs more than the minimum
button_callback_strict(be, tbl, user_id, data, fault, seed) ==
  CASE data = "button1" ->
         [raised |-> FALSE, out |-> <<AmountPrompt>>, state |-> EXPECTING_NUMBER, calls |-> <<>>]
    [] data = "button2" ->
         LET rc == get_referral_count(be, tbl, user_id, fault)
         IN [raised |-> rc.raised, out |-> <<Affiliate(user_id, rc.value)>>, state |-> END,
             calls |-> <<"get_referral_count">>]
    [] data = "withdraw" ->
         LET rc == get_referral_count(be, tbl, user_id, fault)
             ref_count == rc.value
         IN [raised |-> rc.raised,
             out |-> IF ref_count > WithdrawMin
                       THEN <<WithdrawAvailable(generate_random_string(WithdrawRefLength, seed))>>
                       ELSE <<InsufficientReferrals(WithdrawMin - ref_count, ref_count)>>,
             state |-> END,
             calls |-> <<"get_referral_count">>]
    [] data = "home" ->
         [raised |-> FALSE, out |-> <<HomeMenu>>, state |-> END, calls |-> <<>>]

\* a button_callback whose Home returns the state of the Buy branch
button_callback_home_expects(be, tbl, user_id, data, fault, seed) ==
  CASE data = "button1" ->
         [raised |-> FALSE, out |-> <<AmountPrompt>>, state |-> EXPECTING_NUMBER, calls |-> <<>>]
    [] data = "button2" ->
         LET rc == get_referral_count(be, tbl, user_id, fault)
         IN [raised |-> rc.raised, out |-> <<Affiliate(user_id, rc.value)>>, state |-> END,
             calls |-> <<"get_referral_count">>]
    [] data = "withdraw" ->
         LET rc == get_referral_count(be, tbl, user_id, fault)
             ref_count == rc.value
         IN [raised |-> rc.raised,
             out |-> IF ref_count >= WithdrawMin
                       THEN <<WithdrawAvailable(generate_random_string(WithdrawRefLength, seed))>>
                       ELSE <<InsufficientReferrals(WithdrawMin - ref_count, ref_count)>>,
             state |-> END,
             calls |-> <<"get_referral_count">>]
    [] data = "home" ->
         [raised |-> FALSE, out |-> <<HomeMenu>>, state |-> EXPECTING_NUMBER, calls |-> <<>>]

\* button_callback: what it sends, what it returns and whether it raised
button_callback(be, tbl, user_id, data, fault, seed) ==
  CASE data = "button1" ->
         [raised |-> FALSE, out |-> <<AmountPrompt>>, state |-> EXPECTING_NUMBER, calls |-> <<>>]
    [] data = "button2" ->
         LET rc == get_referral_count(be, tbl, user_id, fault)
         IN [raised |-> rc.raised, out |-> <<Affiliate(user_id, rc.value)>>, state |-> END,
             calls |-> <<"get_referral_count">>]
    [] data = "withdraw" ->
         LET rc == get_referral_count(be, tbl, user_id, fault)
             ref_count == rc.value
         IN [raised |-> rc.raised,
             out |-> IF ref_count >= WithdrawMin
                       THEN <<WithdrawAvailable(generate_random_string(WithdrawRefLength, seed))>>
                       ELSE <<InsufficientReferrals(WithdrawMin - ref_count, ref_count)>>,
             state |-> END,
             calls |-> <<"get_referral_count">>]
    [] data = "home" ->
         [raised |-> FALSE, out |-> <<HomeMenu>>, state |-> END, calls |-> <<>>]

\* a press of an inline button
Callback(u, data, fault, seed) ==
  /\ pc[u] = "idle"
  /\ conv_handler(conv[u], "callback") = "button_callback"
  /\ data \in {"button1", "home"} => fault = "ok"
  /\ data # "withdraw" => seed = 0
  /\ LET res == button_callback(backend, referrals, u, data, fault, seed)
     IN /\ cur' = [user |-> u, from |-> conv[u], op |-> "callback", input |-> data]
        /\ calls' = res.calls
        /\ IF res.raised
             THEN /\ out' = <<>>
                  /\ log' = <<"handler_exception">>
                  /\ UNCHANGED conv
             ELSE /\ out' = res.out
                  /\ log' = IF fault = "ok" THEN <<>> ELSE <<"referral_count_error">>
                  /\ conv' = [conv EXCEPT ![u] = res.state]
  /\ UNCHANGED <<backend, now, users, referrals, usage_stats, pc, local, okIncr, base>>

(* ---------------------------- process_number --------------------------- *)

\* the literal 0.00255
Rate == FloatOfDecimal(FALSE, BigFromInt(255), 5)

MinStars == 50

\* a process_number that ends the conversation after an invoice
process_number_ends(text, seed) ==
  LET p == ParseFloat(text)
      number == p.value
      accepted == p.ok /\ FloatGeqNat(number, MinStars)
  IN [out |-> IF ~p.ok THEN <<NotANumber>>
              ELSE IF accepted
                THEN <<Invoice(number, FormatFixed2(FloatMul(number, Rate)),
                               generate_random_string(DefaultLength, seed)), Caution>>
                ELSE <<TooLow>>,
      state |-> IF accepted THEN END ELSE EXPECTING_NUMBER]

\* a process_number without the minimum: every number gets an invoice
process_number_no_floor(text, seed) ==
  LET p == ParseFloat(text)
      number == p.value
  IN [out |-> IF ~p.ok THEN <<NotANumber>>
              ELSE <<Invoice(number, FormatFixed2(FloatMul(number, Rate)),
                             generate_random_string(DefaultLength, seed)), Caution>>,
      state |-> EXPECTING_NUMBER]

\* process_number: what it sends and what it returns
process_number(text, seed) ==
  LET p == ParseFloat(text)
      number == p.value
      result == FloatMul(number, Rate)
      formatted_result == FormatFixed2(result)
      random_string == generate_random_string(DefaultLength, seed)
  IN [out |-> IF ~p.ok THEN <<NotANumber>>
              ELSE IF FloatGeqNat(number, MinStars)
                THEN <<Invoice(number, formatted_result, random_string), Caution>>
                ELSE <<TooLow>>,
      state |-> EXPECTING_NUMBER]

\* process_number on every text explored, computed once
ProcessTable == [t \in AmountTexts |-> [seed \in Seeds |-> process_number(Chars(t), seed)]]

\* a text message that is not a command
Text(u, t, seed) ==
  /\ pc[u] = "idle"
  /\ cur' = [user |-> u, from |-> conv[u], op |-> "text", input |-> t]
  /\ calls' = <<>>
  /\ log' = <<>>
  /\ IF conv_handler(conv[u], "text") = "process_number"
       THEN /\ out' = ProcessTable[t][seed].out
            /\ conv' = [conv EXCEPT ![u] = ProcessTable[t][seed].state]
       ELSE /\ seed = 0
            /\ out' = <<>>
            /\ UNCHANGED conv
  /\ UNCHANGED <<backend, now, users, referrals, usage_stats, pc, local, okIncr, base>>

(* -------------------------------- stats -------------------------------- *)

\* a stats without the admin check
stats_for_all(be, user_id, usage, usertbl, t, fault1, fault2, sel) ==
  LET sd == get_usage_stats(be, usage, t, fault1, sel)
      uu == get_unique_users_count(be, usertbl, fault2)
      v == sd.value
      Max2(a, b) == IF a >= b THEN a ELSE b
  IN IF sd.raised \/ uu.raised \/ v.peak_last_hour = None \/ v.avg_last_hour = None
        \/ v.all_time_max = None
       THEN [out |-> <<DbError>>, log |-> <<"stats_requested", "db_error">>,
             calls |-> <<"get_usage_stats">>]
       ELSE [out |-> <<StatsReport(v.current_connections, uu.value, v.peak_last_hour[1],
                                   v.avg_last_hour[1],
                                   Max2(Max2(v.peak_last_hour[1], v.current_connections),
                                        v.all_time_max[1]))>>,
             log |-> <<"stats_requested", "stats_data", "stats_sent">>,
             calls |-> <<"get_usage_stats", "get_unique_users_count">>]

\* stats: what it sends, what it logs and which Ledger Store calls it makes;
\* int(None) and float(None) raise TypeError inside the inner try
stats(be, user_id, usage, usertbl, t, fault1, fault2, sel) ==
  IF user_id # ADMIN_USER_ID
    THEN [out |-> <<>>, log |-> <<"unauthorized_stats">>, calls |-> <<>>]
    ELSE LET sd == get_usage_stats(be, usage, t, fault1, sel)
             uu == get_unique_users_count(be, usertbl, fault2)
             v == sd.value
             typeError == v.peak_last_hour = None \/ v.avg_last_hour = None
                          \/ v.all_time_max = None
             Max2(a, b) == IF a >= b THEN a ELSE b
         IN IF sd.raised
              THEN [out |-> <<DbError>>, log |-> <<"stats_requested", "db_error">>,
                    calls |-> <<"get_usage_stats">>]
            ELSE IF uu.raised \/ typeError
              THEN [out |-> <<DbError>>, log |-> <<"stats_requested", "db_error">>,
                    calls |-> <<"get_usage_stats", "get_unique_users_count">>]
            ELSE [out |-> <<StatsReport(v.current_connections, uu.value, v.peak_last_hour[1],
                                        v.avg_last_hour[1],
                                        Max2(Max2(v.peak_last_hour[1], v.current_connections),
                                             v.all_time_max[1]))>>,
                  log |-> <<"stats_requested", "stats_data", "stats_sent">>,
                  calls |-> <<"get_usage_stats", "get_unique_users_count">>]

\* the stats command; it is registered outside the conversation
Stats(u, fault1, fault2, sel) ==
  /\ pc[u] = "idle"
  /\ u # ADMIN_USER_ID => fault1 = "ok" /\ fault2 = "ok"
  /\ (u # ADMIN_USER_ID \/ backend # "supabase") => sel = "error"
  /\ LET res == stats(backend, u, usage_stats, users, now, fault1, fault2, sel)
     IN /\ out' = res.out
        /\ log' = res.log
        /\ calls' = res.calls
  /\ cur' = [user |-> u, from |-> conv[u], op |-> "stats", input |-> <<fault1, fault2, sel>>]
  /\ UNCHANGED <<backend, now, users, referrals, usage_stats, conv, pc, local,
                 okIncr, base>>

\* the clock advances
Tick ==
  /\ now < MaxTime
  /\ now' = now + 1
  /\ UNCHANGED <<backend, users, referrals, usage_stats, conv, pc, local, cur, out, log,
                 calls, okIncr, base>>

(* ------------------------ the usage samples --------------------------- *)

\* the readings of the clock at which the usage operations are run: a sample
\* taken at 0 is then an hour old, two hours, a day, and more than a day
Instants == {0, Hour, 2 * Hour, Day, Day + Hour, Day + 2 * Hour}

\* what a Ledger Store call made outside the handlers leaves in the log
StoreLog(raised, fault) ==
  IF raised THEN <<"raised">> ELSE IF fault # "ok" THEN <<"store_error">> ELSE <<>>

\* a call of update_usage_stats
UpdateUsageStats(fault) ==
  /\ Len(usage_stats) < MaxSamples
  /\ LET res == update_usage_stats(backend, usage_stats, now, fault)
     IN /\ usage_stats' = res.tbl
        /\ log' = StoreLog(res.raised, fault)
  /\ cur' = [user |-> 0, from |-> END, op |-> "update_usage_stats", input |-> <<fault>>]
  /\ out' = <<>>
  /\ calls' = <<"update_usage_stats">>
  /\ UNCHANGED <<backend, now, users, referrals, conv, pc, local, okIncr, base>>

\* a call of cleanup_old_stats; the input of the step notes how many samples
\* the call deleted
CleanupOldStats(fault) ==
  /\ LET res == cleanup_old_stats(backend, usage_stats, now, fault)
     IN /\ usage_stats' = res.tbl
        /\ log' = StoreLog(res.raised, fault)
        /\ cur' = [user |-> 0, from |-> END, op |-> "cleanup_old_stats",
                   input |-> <<fault, Len(usage_stats) - Len(res.tbl)>>]
  /\ out' = <<>>
  /\ calls' = <<"cleanup_old_stats">>
  /\ UNCHANGED <<backend, now, users, referrals, conv, pc, local, okIncr, base>>

\* a call of get_usage_stats; out holds the record it returned
GetUsageStats(fault, sel) ==
  /\ (backend # "supabase" \/ fault # "ok") => sel = "error"
  /\ LET res == get_usage_stats(backend, usage_stats, now, fault, sel)
     IN /\ out' = IF res.raised THEN <<>> ELSE <<res.value>>
        /\ log' = StoreLog(res.raised, fault)
  /\ cur' = [user |-> 0, from |-> END, op |-> "get_usage_stats", input |-> <<fault, sel>>]
  /\ calls' = <<"get_usage_stats">>
  /\ UNCHANGED <<backend, now, users, referrals, usage_stats, conv, pc, local, okIncr, base>>

\* time passes between two usage operations; what the latest operation
\* returned is no longer the latest step
Elapse(t) ==
  /\ t > now
  /\ now' = t
  /\ cur' = [user |-> 0, from |-> END, op |-> "none", input |-> <<>>]
  /\ out' = <<>>
  /\ log' = <<>>
  /\ calls' = <<>>
  /\ UNCHANGED <<backend, users, referrals, usage_stats, conv, pc, local, okIncr, base>>

(* --------------------------- specification ---------------------------- *)

\* the store persists across restarts: it holds what earlier starts by
\* PriorUser left in it, a record for referrer 7 and none for referrer 9
InitUsers == <<[user_id |-> PriorUser, first_seen |-> 0]>>

InitReferrals == <<[referrer_id |-> 7, count |-> PreloadCount]>>

Init ==
  /\ backend \in Backends
  /\ now = 0
  /\ users = InitUsers
  /\ referrals = InitReferrals
  /\ usage_stats = <<>>
  /\ conv = [u \in Users |-> END]
  /\ pc = [u \in Users |-> "idle"]
  /\ local = [u \in Users |-> NoLocal]
  /\ cur = [user |-> 0, from |-> END, op |-> "none", input |-> <<>>]
  /\ out = <<>>
  /\ log = <<>>
  /\ calls = <<>>
  /\ okIncr = [r \in ReferrerIds |-> 0]
  /\ base = [r \in ReferrerIds |-> CountOf(referrals, r)]

\* the storage faults of a backend: the Supabase client raises from execute
FaultsOf(be) == IF be = "supabase" THEN {"ok", "execute"} ELSE Faults

\* a start command, as long as the budget of referrals lasts
BoundedStart(u, args, fault, budget) ==
  /\ ReferralOf(u, args).record => Started < budget
  /\ Start(u, args, fault)

Next ==
  \/ \E u \in Users, args \in StartArgs, f \in FaultsOf(backend) :
       BoundedStart(u, args, f, MaxRefs)
  \/ \E u \in Users, f \in FaultsOf(backend) : IncrSelect(u, f)
  \/ \E u \in Users, f \in FaultsOf(backend) : IncrWrite(u, f)
  \/ \E u \in Users, f \in FaultsOf(backend) : IncrUpsert(u, f)
  \/ \E u \in Users, data \in CallbackData, f \in FaultsOf(backend), seed \in Seeds :
       Callback(u, data, f, seed)
  \/ \E u \in Users, t \in AmountTexts, seed \in Seeds : Text(u, t, seed)
  \/ \E u \in Users, f1 \in FaultsOf(backend), f2 \in FaultsOf(backend), sel \in CountSelects :
       Stats(u, f1, f2, sel)

\* the whole bot, all of its commands at one reading of the clock
Spec == Init /\ [][Next]_vars

\* the Ledger Store under concurrent start commands, as the clock advances
NextStore ==
  \/ \E u \in Users, args \in StartArgs, f \in FaultsOf(backend) :
       BoundedStart(u, args, f, MaxIncr)
  \/ \E u \in Users, f \in FaultsOf(backend) : IncrSelect(u, f)
  \/ \E u \in Users, f \in FaultsOf(backend) : IncrWrite(u, f)
  \/ \E u \in Users, f \in FaultsOf(backend) : IncrUpsert(u, f)
  \/ Tick

SpecStore == Init /\ [][NextStore]_vars

\* no handler of another user is running
Alone(u) == \A v \in Users \ {u} : pc[v] = "idle"

\* the bot when its updates are handled one after the other and no storage
\* call fails
NextSeq ==
  \/ \E u \in Users, args \in StartArgs : Alone(u) /\ BoundedStart(u, args, "ok", MaxIncr)
  \/ \E u \in Users : Alone(u) /\ IncrSelect(u, "ok")
  \/ \E u \in Users : Alone(u) /\ IncrWrite(u, "ok")
  \/ \E u \in Users : Alone(u) /\ IncrUpsert(u, "ok")
  \/ \E u \in Users, data \in CallbackData, seed \in Seeds :
       Alone(u) /\ Callback(u, data, "ok", seed)
  \/ \E u \in Users, t \in AmountTexts, seed \in Seeds : Alone(u) /\ Text(u, t, seed)
  \/ \E u \in Users, sel \in CountSelects : Alone(u) /\ Stats(u, "ok", "ok", sel)

SpecSeq == Init /\ [][NextSeq]_vars

\* the usage samples and the Stats Aggregator
NextUsage ==
  \/ \E f \in FaultsOf(backend) : UpdateUsageStats(f)
  \/ \E f \in FaultsOf(backend) : CleanupOldStats(f)
  \/ \E f \in FaultsOf(backend), sel \in CountSelects : GetUsageStats(f, sel)
  \/ \E f1 \in FaultsOf(backend), f2 \in FaultsOf(backend), sel \in CountSelects :
       Stats(ADMIN_USER_ID, f1, f2, sel)
  \/ \E t \in Instants : Elapse(t)

SpecUsage == Init /\ [][NextUsage]_vars

(* ------------------------------- claims ------------------------------- *)

Quiescent == \A u \in Users : pc[u] = "idle"

\* C1: when no call of increment_referral_count is running, the stored count
\* of every referrer is its count at the start plus the number of calls that
\* ran without a storage fault: no update is lost, also when the referrer had
\* no record at the start.
C1_NoLostUpdate ==
  Quiescent => \A r \in ReferrerIds : CountOf(referrals, r) = base[r] + okIncr[r]

\* the texts that parse to a number of at least 50
AtLeastMinTexts == {"50", "99.99", "100", "3e2", "inf"}

\* the texts that do not parse as a number
NonNumericTexts == {"abc"}

\* the texts that parse to a number below 50
BelowMinTexts == {"49"}

\* the latest step ran process_number on a text of the given set
Processed(texts) == cur.op = "text" /\ out # <<>> /\ cur.input \in texts

\* C2, as claimed: after the invoice for an amount of at least 50 the session
\* is in the terminal state.
C2_TerminalAfterInvoice ==
  Processed(AtLeastMinTexts) =>
    /\ Len(out) = 2 /\ out[1].kind = "invoice" /\ out[2] = Caution
    /\ conv[cur.user] = END

\* C2, amended: a text that parses to a number of at least 50, sent while an
\* amount is expected, is answered by the invoice and the cautionary message,
\* and the session stays in EXPECTING_NUMBER, where the next text is again
\* handled by process_number.
C2_StaysExpecting ==
  [][\A u \in Users, t \in AtLeastMinTexts, seed \in Seeds :
       (Text(u, t, seed) /\ conv[u] = EXPECTING_NUMBER) =>
         /\ Len(out') = 2 /\ out'[1].kind = "invoice" /\ out'[2] = Caution
         /\ conv'[u] = EXPECTING_NUMBER
         /\ conv_handler(conv'[u], "text") = "process_number"]_vars

C2_Witness ==
  /\ Processed(AtLeastMinTexts)
  /\ out[1].kind = "invoice"
  /\ conv[cur.user] = EXPECTING_NUMBER

\* C3: a text sent while an amount is expected that is not a number is
\* answered by the not-a-number error, one that parses to a number below 50 by
\* the too-low error; either way the session stays in EXPECTING_NUMBER and no
\* message carries an order id.
C3_InvalidAmountStays ==
  [][\A u \in Users, seed \in Seeds :
       /\ \A t \in NonNumericTexts :
            (Text(u, t, seed) /\ conv[u] = EXPECTING_NUMBER) =>
              out' = <<NotANumber>> /\ conv'[u] = EXPECTING_NUMBER
       /\ \A t \in BelowMinTexts :
            (Text(u, t, seed) /\ conv[u] = EXPECTING_NUMBER) =>
              out' = <<TooLow>> /\ conv'[u] = EXPECTING_NUMBER
       /\ \A t \in NonNumericTexts \cup BelowMinTexts :
            (Text(u, t, seed) /\ conv[u] = EXPECTING_NUMBER) =>
              \A i \in 1..Len(out') : "order_id" \notin DOMAIN out'[i]]_vars

C3_Witness ==
  /\ Processed(BelowMinTexts)
  /\ out = <<TooLow>>
  /\ conv[cur.user] = EXPECTING_NUMBER

\* the argument of a start command names the caller
SelfReferral(u, args) == args # <<>> /\ ParseInt(args[1]).ok /\ ParseInt(args[1]).value = u

\* C4: a start whose referral argument is the caller's own id changes no
\* referral record and leaves no increment of a referral count pending.
C4_SelfReferralIgnored ==
  [][\A u \in Users, args \in StartArgs, f \in Faults :
       (/\ cur'.op = "start" /\ cur'.user = u /\ cur'.input = args
        /\ SelfReferral(u, args)
        /\ Start(u, args, f)) =>
         /\ referrals' = referrals
         /\ pc'[u] = "idle"
         /\ "increment_referral_count" \notin {calls'[i] : i \in 1..Len(calls')}]_vars

C4_Witness ==
  /\ cur.op = "start"
  /\ SelfReferral(cur.user, cur.input)
  /\ out = <<MainMenu>>
  /\ referrals = InitReferrals

\* C5: the stored count of every referrer is at least 0 and no step lowers it.
C5_CountNeverDecreases ==
  [][\A r \in ReferrerIds :
       /\ CountOf(referrals, r)' >= 0
       /\ CountOf(referrals, r)' >= CountOf(referrals, r)]_vars

\* the latest step was a press of the given button by a handler that returned
Pressed(data) == cur.op = "callback" /\ cur.input = data

\* C6: get_referral_count returns 0 for a referrer without a record and the
\* stored count otherwise, returns 0 when its storage call fails, and never
\* raises to button_callback.
C6_GetReferralCountTotal ==
  Pressed("button2") =>
    /\ log # <<"handler_exception">>
    /\ out = <<Affiliate(cur.user,
                         IF log = <<"referral_count_error">> THEN 0
                         ELSE IF \E i \in 1..Len(referrals) : referrals[i].referrer_id = cur.user
                           THEN (CHOOSE row \in {referrals[i] : i \in 1..Len(referrals)} :
                                   row.referrer_id = cur.user).count
                           ELSE 0)>>

UserIds == Users \cup {PriorUser}

\* C7: the users table never holds two records of one user id, a record once
\* stored is never changed or deleted, and a start whose add_new_user meets
\* no storage fault leaves exactly one record of the caller.
C7_AddNewUserIdempotent ==
  [][/\ \A id \in UserIds :
          /\ Len(SelectWhere(users, "user_id", id)') <= 1
          /\ SelectWhere(users, "user_id", id) # <<>> =>
               SelectWhere(users, "user_id", id)' = SelectWhere(users, "user_id", id)
     /\ \A u \in Users, args \in StartArgs :
          (cur'.op = "start" /\ cur'.user = u /\ cur'.input = args /\ Start(u, args, "ok")) =>
            Len(SelectWhere(users, "user_id", u)') = 1]_vars

\* user 7 was first seen at time 0 and sent a start again at time 1, after
\* user 42 was first seen
C7_Witness ==
  /\ now = 1
  /\ users = InitUsers \o <<[user_id |-> 7, first_seen |-> 0], [user_id |-> 42, first_seen |-> 1]>>
  /\ cur.op = "start" /\ cur.user = 7
  /\ pc[7] = "idle"

\* C8: a stats command of a caller other than the admin sends nothing, makes
\* no Ledger Store call, logs the attempt and changes no stored or session
\* state; a report is only ever sent to the admin.
C8_StatsAdminOnly ==
  [][/\ \A u \in Users \ {ADMIN_USER_ID}, f1 \in Faults, f2 \in Faults, sel \in CountSelects :
          Stats(u, f1, f2, sel) =>
            /\ out' = <<>>
            /\ calls' = <<>>
            /\ log' = <<"unauthorized_stats">>
            /\ UNCHANGED <<users, referrals, usage_stats, conv, pc>>
     /\ (\E i \in 1..Len(out') : out'[i].kind = "stats_report") =>
          cur'.op = "stats" /\ cur'.user = ADMIN_USER_ID]_vars

C8_Witness ==
  /\ cur.op = "stats" /\ cur.user # ADMIN_USER_ID
  /\ out = <<>>
  /\ log = <<"unauthorized_stats">>

\* the 62 alphanumeric characters, as character codes
Alphanumeric == (48..57) \cup (65..90) \cup (97..122)

\* the count that get_referral_count handed to the latest withdraw
Fetched == IF log = <<"referral_count_error">> THEN 0 ELSE CountOf(referrals, cur.user)

\* C9: a withdraw that fetched the count c answers, for c >= 100, with the
\* confirmation and a reference of exactly 8 alphanumeric characters, and for
\* c < 100 with the insufficient-referrals message for remaining = 100 - c,
\* which carries no reference: 1 for c = 99 and 100 for c = 0.
C9_WithdrawThreshold ==
  (Pressed("withdraw") /\ out # <<>>) =>
    /\ Len(out) = 1
    /\ Fetched >= 100 =>
         /\ out[1].kind = "withdraw_available"
         /\ Len(out[1].reference) = 8
         /\ \A i \in 1..Len(out[1].reference) : out[1].reference[i] \in Alphanumeric
    /\ Fetched < 100 =>
         /\ out[1].kind = "insufficient_referrals"
         /\ out[1].remaining = 100 - Fetched
         /\ out[1].ref_count = Fetched
         /\ "reference" \notin DOMAIN out[1]
    /\ Fetched = 99 => out[1].remaining = 1
    /\ Fetched = 0 => out[1].remaining = 100

C9_Witness ==
  /\ Pressed("withdraw")
  /\ out # <<>>
  /\ out[1].kind = "withdraw_available"
  /\ CountOf(referrals, cur.user) = 100

\* a price with an integer part and exactly two fractional digits
TwoFractionDigits(price) ==
  /\ Len(price) >= 4
  /\ price[Len(price) - 2] = "."
  /\ \A i \in 1..Len(price) : i # Len(price) - 2 => price[i] \in Digits

\* the hundredths a price with two fractional digits stands for
PriceHundredths(price) ==
  BigFromInt(DigitsValue(SubSeq(price, 1, Len(price) - 3)
                         \o SubSeq(price, Len(price) - 1, Len(price))))

\* c / 100 is the decimal with two fractional digits nearest to the float x,
\* the even one when two are equally near
NearestHundredths(c, x) ==
  LET s == 0 - x.e
      n == BigMulSmall(x.m, 100)
      scaled == BigShl(c, s)
      diff == IF BigCmp(n, scaled) >= 0 THEN BigSub(n, scaled) ELSE BigSub(scaled, n)
      cmp == BigCmp(BigMulSmall(diff, 2), BigShl(<<1>>, s))
  IN x.cls = "finite" /\ x.e < 0 /\ (cmp < 0 \/ (cmp = 0 /\ ~BigIsOdd(c)))

\* C10: the price of every invoice has exactly two fractional digits and is
\* the float product of the amount and 0.00255 rounded to two places; the
\* amount 100 is priced 0.26.
C10_PriceRounded ==
  (Processed(AmountTexts) /\ out[1].kind = "invoice") =>
    /\ TwoFractionDigits(out[1].price)
    /\ NearestHundredths(PriceHundredths(out[1].price),
                         FloatMul(ParseFloat(Chars(cur.input)).value, Rate))
    /\ cur.input = "100" => out[1].price = <<"0", ".", "2", "6">>

\* the samples of a table that are at most a day old at time t
NotOlderThanDay(tbl, t) == SelectSeq(tbl, LAMBDA row : t - row.timestamp <= Day)

\* C11: a cleanup_old_stats that meets no storage fault leaves no sample taken
\* more than 24 hours before the purge, and leaves every sample that is at
\* most 24 hours old, in its place.
C11_CleanupKeepsRecent ==
  [][(cur'.op = "cleanup_old_stats" /\ CleanupOldStats("ok")) =>
       /\ \A i \in 1..Len(usage_stats') : now - usage_stats'[i].timestamp <= Day
       /\ usage_stats' = NotOlderThanDay(usage_stats, now)]_vars

\* a purge that deleted one sample and kept the one taken exactly a day before
C11_Witness ==
  /\ cur.op = "cleanup_old_stats" /\ cur.input = <<"ok", 1>>
  /\ now = Day + Hour
  /\ usage_stats = <<Sample(Hour)>>

\* C12: start is routed to its handler in both conversation states; a start
\* whose add_new_user meets no storage fault leaves the caller in the users
\* table, and a start that returns has sent the main menu with the buttons
\* Buy (button1) and Earn (button2) and left the session in the terminal
\* state, where a text is not taken as an amount.
C12_StartAlwaysAccepted ==
  [][/\ \A u \in Users :
          conv[u] \in {END, EXPECTING_NUMBER} /\ conv_handler(conv[u], "start") = "start"
     /\ \A u \in Users, args \in StartArgs :
          (cur'.op = "start" /\ cur'.user = u /\ cur'.input = args /\ Start(u, args, "ok")) =>
            RowsWhere(users', "user_id", u) # {}
     /\ (cur'.op = "start" /\ pc'[cur'.user] = "idle" /\ log' # <<"handler_exception">>) =>
          /\ out' = <<MainMenu>>
          /\ out'[1].buttons = <<"button1", "button2">>
          /\ conv'[cur'.user] = END
          /\ conv_handler(conv'[cur'.user], "text") = "none"]_vars

\* a start sent while an amount was expected has returned
C12_Witness ==
  /\ cur.op = "start" /\ cur.from = EXPECTING_NUMBER
  /\ pc[cur.user] = "idle"
  /\ out = <<MainMenu>>
  /\ conv[cur.user] = END
  /\ RowsWhere(users, "user_id", cur.user) # {}

\* C13: a button press is routed to button_callback in both conversation
\* states, and a press that returns leaves the session in EXPECTING_NUMBER for
\* button1 and in the terminal state for button2, withdraw and home, whatever
\* state it was pressed in.
C13_StateFromCallbackOnly ==
  [][/\ \A u \in Users : conv_handler(conv[u], "callback") = "button_callback"
     /\ \A u \in Users, data \in CallbackData, f \in Faults, seed \in Seeds :
          (/\ cur'.op = "callback" /\ cur'.user = u /\ cur'.input = data
           /\ Callback(u, data, f, seed)
           /\ log' # <<"handler_exception">>) =>
            conv'[u] = IF data = "button1" THEN EXPECTING_NUMBER ELSE END]_vars

\* Home was pressed while an amount was expected
C13_Witness ==
  /\ Pressed("home") /\ cur.from = EXPECTING_NUMBER
  /\ out = <<HomeMenu>>
  /\ conv[cur.user] = END

\* the latest step was a get_usage_stats that met no storage fault and returned
Aggregated == cur.op = "get_usage_stats" /\ cur.input[1] = "ok" /\ out # <<>>

\* the samples taken less than an hour before t, and those taken at most an hour before
WithinHour(tbl, t) == SelectSeq(tbl, LAMBDA row : t - row.timestamp < Hour)

WithinHourOrAt(tbl, t) == SelectSeq(tbl, LAMBDA row : t - row.timestamp <= Hour)

\* C14: the current_connections that get_usage_stats returns is the number of
\* samples taken within the last hour, with or without those taken exactly an
\* hour before; older samples that are still retained are not counted.
C14_CurrentConnectionsLastHour ==
  Aggregated =>
    out[1].current_connections \in
      {Len(WithinHour(usage_stats, now)), Len(WithinHourOrAt(usage_stats, now))}

\* a nullable value is the maximum of connections over the rows, 0 for no row
IsPeakOf(v, rows) ==
  v = IF rows = <<>> THEN Some(0) ELSE Some(SeqMax(Connections(rows)))

\* a nullable value is the arithmetic mean of connections over the rows, 0 for no row
IsMeanOf(v, rows) ==
  /\ v # None
  /\ IF rows = <<>> THEN v[1].sum = 0
     ELSE v[1].sum * Len(rows) = SeqSum(Connections(rows)) * v[1].n

\* the latest step was a stats command of the admin on which no storage call failed
StatsNoFault == cur.op = "stats" /\ cur.user = ADMIN_USER_ID
                /\ cur.input[1] = "ok" /\ cur.input[2] = "ok"

\* C15: a get_usage_stats that meets no storage fault returns the maximum and
\* the mean of connections over the samples of the last hour, with or without
\* those taken exactly an hour before, 0 for both when there is none, and the
\* maximum over all samples, 0 for an empty table; and a stats command of the
\* admin on an empty usage table sends the report with zeros.
C15_PeakAvgZeroWhenEmpty ==
  /\ Aggregated =>
       /\ \/ /\ IsPeakOf(out[1].peak_last_hour, WithinHour(usage_stats, now))
             /\ IsMeanOf(out[1].avg_last_hour, WithinHour(usage_stats, now))
          \/ /\ IsPeakOf(out[1].peak_last_hour, WithinHourOrAt(usage_stats, now))
             /\ IsMeanOf(out[1].avg_last_hour, WithinHourOrAt(usage_stats, now))
       /\ IsPeakOf(out[1].all_time_max, usage_stats)
  /\ (StatsNoFault /\ usage_stats = <<>>) =>
       /\ Len(out) = 1
       /\ out[1].kind = "stats_report"
       /\ out[1].connections = 0 /\ out[1].peak = 0 /\ out[1].avg.sum = 0
       /\ out[1].all_time = 0

\* C16: a stats command of the admin on which get_usage_stats or
\* get_unique_users_count met a storage fault is answered by the generic
\* database error message and by no report.
C16_StatsFailureGenericError ==
  (cur.op = "stats" /\ cur.user = ADMIN_USER_ID
   /\ (cur.input[1] # "ok" \/ cur.input[2] # "ok")) =>
    out = <<DbError>>

\* C17: a get_usage_stats whose storage call fails raises nothing and
\* returns the record whose four fields are all zero.
C17_UsageStatsNeverRaises ==
  (cur.op = "get_usage_stats" /\ cur.input[1] # "ok") =>
    /\ log # <<"raised">>
    /\ Len(out) = 1
    /\ out[1].current_connections = 0
    /\ out[1].peak_last_hour = Some(0)
    /\ out[1].avg_last_hour # None /\ out[1].avg_last_hour[1].sum = 0
    /\ out[1].all_time_max = Some(0)

\* the storage faults
Failures == Faults \ {"ok"}

\* C18: a storage fault in a Ledger Store call of start, Earn or Withdraw
\* changes no stored data and does not abort the handler: start still sends
\* the main menu and ends in the terminal state, and Earn and Withdraw answer
\* as for a referral count of 0 and end in the terminal state.
C18_StorageFailureNeverAborts ==
  [][/\ \A u \in Users, args \in StartArgs, f \in Failures :
          (cur'.op = "start" /\ cur'.user = u /\ cur'.input = args /\ Start(u, args, f)) =>
            /\ users' = users
            /\ log' # <<"handler_exception">>
            /\ pc'[u] = "idle" => (out' = <<MainMenu>> /\ conv'[u] = END)
     /\ \A u \in Users, f \in Failures :
          (cur'.op = "start" /\ cur'.user = u
           /\ (IncrSelect(u, f) \/ IncrWrite(u, f) \/ IncrUpsert(u, f))) =>
            /\ referrals' = referrals
            /\ log' # <<"handler_exception">>
            /\ out' = <<MainMenu>> /\ conv'[u] = END
     /\ \A u \in Users, f \in Failures, seed \in Seeds :
          /\ (cur'.op = "callback" /\ cur'.user = u /\ Callback(u, "button2", f, seed)) =>
               /\ log' # <<"handler_exception">>
               /\ out' = <<Affiliate(u, 0)>> /\ conv'[u] = END
          /\ (cur'.op = "callback" /\ cur'.user = u /\ Callback(u, "withdraw", f, seed)) =>
               /\ log' # <<"handler_exception">>
               /\ out' = <<InsufficientReferrals(WithdrawMin, 0)>> /\ conv'[u] = END]_vars

\* the argument of a start command is there and is no integer
Malformed(args) == args # <<>> /\ ~ParseInt(args[1]).ok

\* C19: a start whose argument is no integer changes no referral record,
\* leaves no increment pending and does to the users table what add_new_user
\* does; when it returns it has sent the main menu and nothing else and the
\* session is in the terminal state, and without a storage fault it returns
\* and the caller is in the users table.
C19_MalformedReferrerIgnored ==
  [][\A u \in Users, args \in StartArgs, f \in Faults :
       (/\ cur'.op = "start" /\ cur'.user = u /\ cur'.input = args
        /\ Malformed(args)
        /\ Start(u, args, f)) =>
         /\ referrals' = referrals
         /\ pc'[u] = "idle"
         /\ calls' = <<"add_new_user">>
         /\ users' = add_new_user(backend, users, u, now, f).tbl
         /\ log' # <<"handler_exception">> => (out' = <<MainMenu>> /\ conv'[u] = END)
         /\ f = "ok" => (RowsWhere(users', "user_id", u) # {} /\ out' = <<MainMenu>>)]_vars

\* a start with the argument 4x has returned
C19_Witness ==
  /\ cur.op = "start" /\ Malformed(cur.input)
  /\ pc[cur.user] = "idle"
  /\ out = <<MainMenu>>
  /\ conv[cur.user] = END
  /\ RowsWhere(users, "user_id", cur.user) # {}
  /\ referrals = InitReferrals

\* C20: a step taken for one user, whatever its input and whatever storage
\* fault it meets, leaves the conversation state of every other user, the
\* position of their handlers and their local variables as they were.
C20_SessionsIsolated ==
  [][\A b \in Users \ {cur'.user} :
       /\ conv'[b] = conv[b]
       /\ pc'[b] = pc[b]
       /\ local'[b] = local[b]]_vars

\* a handler of one user was aborted by a storage fault while the other user
\* is entering an amount
C20_Witness ==
  /\ cur.user \in Users
  /\ log = <<"handler_exception">>
  /\ \E b \in Users \ {cur.user} : conv[b] = EXPECTING_NUMBER /\ conv[cur.user] = END

\* a start of caller u with these arguments names referrer r, who is not u
Credits(u, args, r) ==
  args # <<>> /\ ParseInt(args[1]).ok /\ ParseInt(args[1]).value = r /\ r # u

\* C21: when updates are handled one after the other and no storage call
\* fails, the step in which a start returns raises by one the stored count of
\* the referrer its argument names, if that is an integer other than the
\* caller's id, and changes no other count; every other step, of start or of
\* Buy, Earn, Withdraw, Home, an amount or stats, leaves the referral
\* records as they are. So every start that names a referrer counts, also one
\* repeated by the same caller.
C21_CountsOnlyThroughStart ==
  [][IF cur'.op = "start" /\ pc[cur'.user] # "idle" /\ pc'[cur'.user] = "idle"
       THEN \A r \in ReferrerIds :
              CountOf(referrals', r) =
                CountOf(referrals, r) + IF Credits(cur'.user, cur'.input, r) THEN 1 ELSE 0
       ELSE referrals' = referrals]_vars

\* caller 7 is the only one who ever started, and named referrer 9 twice
C21_Witness ==
  /\ Quiescent
  /\ cur.op = "start" /\ cur.user = 7 /\ Credits(7, cur.input, 9)
  /\ \A i \in 1..Len(users) : users[i].user_id \in {PriorUser, 7}
  /\ CountOf(referrals, 9) = 2

\* a message of the sequence is an invoice
HasInvoice(msgs) == \E i \in 1..Len(msgs) : msgs[i].kind = "invoice"

\* C22: a step that sends an invoice is a text of a user whose session is in
\* EXPECTING_NUMBER; a session enters EXPECTING_NUMBER only by that user's
\* press of Buy (button1); a start, Earn, Withdraw or Home of a user that
\* returns leaves that session in the terminal state; and a text of a user
\* whose session is idle sends nothing and changes no session and no record.
C22_InvoiceOnlyWhenExpecting ==
  [][/\ HasInvoice(out') =>
          /\ cur'.op = "text"
          /\ conv[cur'.user] = EXPECTING_NUMBER
          /\ "order_id" \in DOMAIN out'[1]
     /\ \A u \in Users :
          (conv'[u] = EXPECTING_NUMBER /\ conv[u] # EXPECTING_NUMBER) =>
            (cur'.op = "callback" /\ cur'.user = u /\ cur'.input = "button1")
     /\ (/\ \/ cur'.op = "start" /\ pc'[cur'.user] = "idle"
            \/ cur'.op = "callback" /\ cur'.input \in {"button2", "withdraw", "home"}
         /\ log' # <<"handler_exception">>) =>
          conv'[cur'.user] = END
     /\ (cur'.op = "text" /\ conv[cur'.user] = END) =>
          /\ out' = <<>>
          /\ UNCHANGED <<conv, pc, local, users, referrals, usage_stats>>]_vars

\* an invoice with its order id was sent to a user who was entering an amount
C22_Witness ==
  /\ cur.op = "text" /\ cur.from = EXPECTING_NUMBER
  /\ HasInvoice(out)
  /\ Len(out[1].order_id) = DefaultLength

\* C23: the step in which a start returns has appended one sample with
\* connections = 1, taken at the time of the command, to usage_stats, and has
\* left the samples that were there.
C23_StartAppendsSample ==
  [][(cur'.op = "start" /\ pc'[cur'.user] = "idle" /\ log' # <<"handler_exception">>) =>
       /\ Len(usage_stats') = Len(usage_stats) + 1
       /\ usage_stats' = Append(usage_stats, Sample(now))]_vars

====
